---- MODULE Spec2Model ----
(***************************************************************************)
(* A model of sigmatch (SpriteOvO/sigmatch): the signature bytes, the      *)
(* streaming matcher, the blocking (chunked) searcher and the              *)
(* multi-threaded searcher.                                                *)
(*                                                                         *)
(* Addresses are natural numbers; the byte at address a is mem[a + 1].     *)
(* Offsets into a span ("iterators") are 0-based, as in the source.        *)
(***************************************************************************)
EXTENDS Integers, Sequences, FiniteSets, TLC

(***************************************************************************)
(* Bounds of the model.                                                    *)
(***************************************************************************)
\* longest byte stream fed to a matcher
MaxStream == 5
\* longest signature
MaxSigLen == 3
\* most match() calls made on one matcher
MaxCalls == 4
\* most bytes of memory a search is given
MaxMem == 4
\* largest block size of a searcher
MaxBlock == 2
\* largest threads_max_count of a multi_threaded_searcher
MaxThreads == 2
\* largest SIGMATCH_MULTI_THREADED_SEARCH_SIZE_THRESHOLD of a build
MaxThreshold == 1
\* most reads that fail during one call
MaxFails == 2
\* most pieces (tokens, separators) a signature text is put together from
MaxPieces == 3

\* how far past the end of the file a searched range reaches at most
MaxPastEnd == 2

(***************************************************************************)
(* Bytes and signature bytes.                                              *)
(***************************************************************************)
\* the byte values memory holds in the model: 0x56 and 0x16
Bytes == {86, 22}

RECURSIVE BitAnd(_, _)
\* std::byte operator&, on 8-bit values
BitAnd(a, b) ==
    IF a = 0 \/ b = 0 THEN 0
    ELSE ((a % 2) * (b % 2)) + 2 * BitAnd(a \div 2, b \div 2)

RECURSIVE BitXor(_, _)
\* std::byte operator^, on 8-bit values
BitXor(a, b) ==
    IF a = 0 /\ b = 0 THEN 0
    ELSE ((a + b) % 2) + 2 * BitXor(a \div 2, b \div 2)

\* sig_byte(std::byte value): full match, mask 0xFF
sig_byte_full(value) == [value |-> value, mask |-> 255]

\* sig_byte(wildcard, std::byte right): low nibble, mask 0x0F
sig_byte_low(right) == [value |-> right, mask |-> 15]

\* sig_byte(std::byte value, std::byte mask): both stored as given
sig_byte_value_mask(value, mask) == [value |-> value, mask |-> mask]

\* sig_byte(std::byte left, wildcard): high nibble, left << 4 as a std::byte
sig_byte_high(left) == [value |-> (left * 16) % 256, mask |-> 240]

\* sig_byte(wildcard): _value{0}, _mask{0}
sig_byte_wildcard == [value |-> 0, mask |-> 0]

\* the signature bytes of the model: "56" and "?6"
SigBytes == {sig_byte_full(86), sig_byte_low(6)}

\* a mutant of sig_byte_match: the mask is ignored
sig_byte_match_NoMask(sb, value) == BitXor(value, sb.value) = 0

\* sig_byte::match: ((value & _mask) ^ _value) == 0
sig_byte_match(sb, value) == BitXor(BitAnd(value, sb.mask), sb.value) = 0

\* all sequences over S of length at most n
SeqsUpTo(S, n) == UNION {[1..k -> S] : k \in 0..n}

\* elements from offset first (0-based) up to, not including, offset last
Slice(s, first, last) == SubSeq(s, first + 1, last)

Min(a, b) == IF a < b THEN a ELSE b

Max(a, b) == IF a > b THEN a ELSE b

(***************************************************************************)
(* The matcher.                                                            *)
(***************************************************************************)
RECURSIVE std_search(_, _, _)
\* std::search(iter, haystack.end(), sig_bytes.begin(), sig_bytes.end()):
\* the offset of the first occurrence at or after first, or Len(haystack)
\* (the end iterator) when there is none; an empty needle is found at first
std_search(haystack, first, needle) ==
    IF first + Len(needle) > Len(haystack) THEN Len(haystack)
    ELSE IF \A k \in 1..Len(needle) :
                sig_byte_match(needle[k], haystack[first + k])
         THEN first
         ELSE std_search(haystack, first + 1, needle)

RECURSIVE search_sig_loop_SkipMatch(_, _, _, _, _)
\* a mutant of search_sig_loop: the scan resumes after the end of a match
search_sig_loop_SkipMatch(sig_bytes, haystack, base, result, iter) ==
    IF Len(haystack) - iter < Len(sig_bytes)
    THEN [iter |-> Min(iter, Len(haystack)), result |-> result]
    ELSE LET sc_iter == std_search(haystack, iter, sig_bytes) IN
         IF sc_iter = Len(haystack)
         THEN [iter |-> Len(haystack) - Len(sig_bytes) + 1, result |-> result]
         ELSE search_sig_loop_SkipMatch(sig_bytes, haystack, base,
                                        Append(result, base + sc_iter),
                                        sc_iter + Len(sig_bytes))

RECURSIVE search_sig_loop(_, _, _, _, _)
\* the while (true) loop of matcher::search_sig, from iterator iter on
search_sig_loop(sig_bytes, haystack, base, result, iter) ==
    IF Len(haystack) - iter < Len(sig_bytes)
    THEN [iter |-> iter, result |-> result]
    ELSE LET sc_iter == std_search(haystack, iter, sig_bytes) IN
         IF sc_iter = Len(haystack)
         THEN [iter |-> Len(haystack) - Len(sig_bytes) + 1, result |-> result]
         ELSE search_sig_loop(sig_bytes, haystack, base,
                              Append(result, base + sc_iter), sc_iter + 1)

\* matcher::search_sig: appends base + offset for every occurrence and
\* returns the iterator where the unmatched bytes begin
search_sig(sig_bytes, haystack, base, result) ==
    search_sig_loop(sig_bytes, haystack, base, result, 0)

\* a mutant of match: the bytes left from the previous call are dropped
match_NoTail(sig_bytes, last_unmatched, data, base, result) ==
    LET r == search_sig(sig_bytes, data, base, result) IN
    [last_unmatched |-> Slice(data, r.iter, Len(data)), result |-> r.result]

\* a mutant of match: the joined buffer is searched with the base address
\* of the chunk
match_ChunkBase(sig_bytes, last_unmatched, data, base, result) ==
    LET handle_new_data(res) ==
            LET r == search_sig(sig_bytes, data, base, res) IN
            [last_unmatched |-> Slice(data, r.iter, Len(data)),
             result |-> r.result]
    IN
    IF last_unmatched # <<>>
    THEN IF Len(last_unmatched) + Len(data) < Len(sig_bytes)
         THEN [last_unmatched |-> last_unmatched \o data, result |-> result]
         ELSE LET copy_count == Min(Len(data), Len(sig_bytes) - 1)
                  unmatched_count == Len(last_unmatched)
                  pop_count == unmatched_count + copy_count - Len(sig_bytes) + 1
                  joined == last_unmatched \o Slice(data, 0, copy_count)
                  r == search_sig(sig_bytes, joined, base, result)
              IN IF pop_count # unmatched_count
                 THEN [last_unmatched |-> Slice(joined, pop_count, Len(joined)),
                       result |-> r.result]
                 ELSE handle_new_data(r.result)
    ELSE handle_new_data(result)

\* a mutant of match: the bytes already searched are not erased from the
\* joined buffer
match_NoErase(sig_bytes, last_unmatched, data, base, result) ==
    LET handle_new_data(res) ==
            LET r == search_sig(sig_bytes, data, base, res) IN
            [last_unmatched |-> Slice(data, r.iter, Len(data)),
             result |-> r.result]
    IN
    IF last_unmatched # <<>>
    THEN IF Len(last_unmatched) + Len(data) < Len(sig_bytes)
         THEN [last_unmatched |-> last_unmatched \o data, result |-> result]
         ELSE LET copy_count == Min(Len(data), Len(sig_bytes) - 1)
                  unmatched_count == Len(last_unmatched)
                  pop_count == unmatched_count + copy_count - Len(sig_bytes) + 1
                  joined == last_unmatched \o Slice(data, 0, copy_count)
                  r == search_sig(sig_bytes, joined, base - unmatched_count, result)
              IN IF pop_count # unmatched_count
                 THEN [last_unmatched |-> joined, result |-> r.result]
                 ELSE handle_new_data(r.result)
    ELSE handle_new_data(result)

\* matcher::match(data, base, result) on a matcher holding _sig = sig_bytes
\* and _last_unmatched = last_unmatched
match(sig_bytes, last_unmatched, data, base, result) ==
    LET handle_new_data(res) ==
            LET r == search_sig(sig_bytes, data, base, res) IN
            [last_unmatched |-> Slice(data, r.iter, Len(data)),
             result |-> r.result]
    IN
    IF last_unmatched # <<>>
    THEN IF Len(last_unmatched) + Len(data) < Len(sig_bytes)
         THEN [last_unmatched |-> last_unmatched \o data, result |-> result]
         ELSE LET copy_count == Min(Len(data), Len(sig_bytes) - 1)
                  unmatched_count == Len(last_unmatched)
                  pop_count == unmatched_count + copy_count - Len(sig_bytes) + 1
                  joined == last_unmatched \o Slice(data, 0, copy_count)
                  r == search_sig(sig_bytes, joined, base - unmatched_count, result)
              IN IF pop_count # unmatched_count
                 THEN [last_unmatched |-> Slice(joined, pop_count, Len(joined)),
                       result |-> r.result]
                 ELSE handle_new_data(r.result)
    ELSE handle_new_data(result)

\* matcher::matcher: reserve((_sig.size() - 1) * 2) is computed in size_t, so
\* an empty signature asks for 2^64 - 2 elements and reserve throws
matcher_ctor(sig_bytes) ==
    IF Len(sig_bytes) = 0 THEN "length_error" ELSE "ready"

(***************************************************************************)
(* The signature parser.  A text is a sequence of characters, a character  *)
(* a string of length 1; gh tells whether the build defines                *)
(* SIGMATCH_EXPERIMENTAL_ENABLE_GHIDRA_SIGNATURE_FORMAT, ct whether the     *)
(* code is constant-evaluated (the _sig literal) or runs (signature::parse).*)
(***************************************************************************)
\* the characters '0'..'9', 'A'..'F' and 'a'..'f', in order
DecDigits == <<"0", "1", "2", "3", "4", "5", "6", "7", "8", "9">>

UpperDigits == <<"A", "B", "C", "D", "E", "F">>

LowerDigits == <<"a", "b", "c", "d", "e", "f">>

\* whether ch >= first && ch <= last, for the characters of a run
InRun(run, ch) == \E i \in 1..Len(run) : run[i] = ch

\* ch - first, for a character of a run
OffsetIn(run, ch) == (CHOOSE i \in 1..Len(run) : run[i] = ch) - 1

\* SIGMATCH_CT_RT_ASSERT failing: throw when constant-evaluated, else
\* return std::nullopt
ct_rt_assert_failed(ct) == IF ct THEN "throw" ELSE "nullopt"

RECURSIVE parse_byte_hex_loop(_, _, _, _)
\* the for loop of parse_byte_hex_str, from character i (1-based) on
parse_byte_hex_loop(str, i, result, ct) ==
    IF i > Len(str) THEN [kind |-> "value", byte |-> result]
    ELSE IF ~(result < 16) THEN [kind |-> ct_rt_assert_failed(ct), byte |-> 0]
    ELSE LET ch == str[i] IN
         IF InRun(DecDigits, ch)
         THEN parse_byte_hex_loop(str, i + 1,
                  (result * 16 + OffsetIn(DecDigits, ch)) % 256, ct)
         ELSE IF InRun(UpperDigits, ch)
         THEN parse_byte_hex_loop(str, i + 1,
                  (result * 16 + OffsetIn(UpperDigits, ch) + 10) % 256, ct)
         ELSE IF InRun(LowerDigits, ch)
         THEN parse_byte_hex_loop(str, i + 1,
                  (result * 16 + OffsetIn(LowerDigits, ch) + 10) % 256, ct)
         ELSE [kind |-> ct_rt_assert_failed(ct), byte |-> 0]

\* impl::parse_byte_hex_str
parse_byte_hex_str(str, ct) == parse_byte_hex_loop(str, 1, 0, ct)

\* source.find(" ", begin_pos), positions 0-based, -1 for npos
find_space(source, begin_pos) ==
    IF \E i \in begin_pos..(Len(source) - 1) : source[i + 1] = " "
    THEN CHOOSE i \in begin_pos..(Len(source) - 1) :
             /\ source[i + 1] = " "
             /\ \A j \in begin_pos..(i - 1) : source[j + 1] # " "
    ELSE -1

RECURSIVE string_split_loop_SkipChar(_, _, _)
\* a mutant of string_split_loop: the search goes on one character too far
\* behind the delimiter
string_split_loop_SkipChar(source, begin_pos, result) ==
    LET end_pos == find_space(source, begin_pos)
        token == IF end_pos = -1 THEN Slice(source, begin_pos, Len(source))
                 ELSE Slice(source, begin_pos, end_pos)
        next == IF token # <<>> THEN Append(result, token) ELSE result
    IN IF end_pos = -1 THEN next
       ELSE string_split_loop_SkipChar(source, end_pos + 2, next)

RECURSIVE string_split_loop(_, _, _)
\* the do-while loop of string_split(source, " ", exclude_empty = true)
string_split_loop(source, begin_pos, result) ==
    LET end_pos == find_space(source, begin_pos)
        token == IF end_pos = -1 THEN Slice(source, begin_pos, Len(source))
                 ELSE Slice(source, begin_pos, end_pos)
        next == IF token # <<>> THEN Append(result, token) ELSE result
    IN IF end_pos = -1 THEN next
       ELSE string_split_loop(source, end_pos + 1, next)

\* impl::string_split(source, " ")
string_split(source) == string_split_loop(source, 0, <<>>)

\* impl::is_char_wildcard
is_char_wildcard(ch, gh) == ch = "?" \/ ch = "*" \/ (gh /\ ch = ".")

\* impl::count_non_space_char
count_non_space_char(sig_str) ==
    Cardinality({i \in 1..Len(sig_str) : sig_str[i] # " "})

\* what a parse of one token gives: a sig_byte, std::nullopt or a throw
NoSigByte(kind) == [kind |-> kind, sb |-> [value |-> 0, mask |-> 0]]

\* a mutant of parse_sig_normal: the nibble of a semi-wildcard lands in the
\* other half of the byte
parse_sig_normal_Swapped(byte_str, ct, gh) ==
    IF Len(byte_str) # 2 THEN NoSigByte(ct_rt_assert_failed(ct))
    ELSE LET is_left_wildcard == is_char_wildcard(byte_str[1], gh)
             is_right_wildcard == is_char_wildcard(byte_str[2], gh)
         IN IF ~is_left_wildcard /\ ~is_right_wildcard
            THEN LET b == parse_byte_hex_str(byte_str, ct) IN
                 IF b.kind = "value"
                 THEN [kind |-> "value", sb |-> sig_byte_full(b.byte)]
                 ELSE NoSigByte(b.kind)
            ELSE IF is_left_wildcard /\ is_right_wildcard
            THEN [kind |-> "value", sb |-> sig_byte_wildcard]
            ELSE IF is_left_wildcard
            THEN LET b == parse_byte_hex_str(<<byte_str[2]>>, ct) IN
                 IF b.kind = "value"
                 THEN [kind |-> "value", sb |-> sig_byte_high(b.byte)]
                 ELSE NoSigByte(b.kind)
            ELSE LET b == parse_byte_hex_str(<<byte_str[1]>>, ct) IN
                 IF b.kind = "value"
                 THEN [kind |-> "value", sb |-> sig_byte_low(b.byte)]
                 ELSE NoSigByte(b.kind)

\* impl::parse_sig_normal
parse_sig_normal(byte_str, ct, gh) ==
    IF Len(byte_str) # 2 THEN NoSigByte(ct_rt_assert_failed(ct))
    ELSE LET is_left_wildcard == is_char_wildcard(byte_str[1], gh)
             is_right_wildcard == is_char_wildcard(byte_str[2], gh)
         IN IF ~is_left_wildcard /\ ~is_right_wildcard
            THEN LET b == parse_byte_hex_str(byte_str, ct) IN
                 IF b.kind = "value"
                 THEN [kind |-> "value", sb |-> sig_byte_full(b.byte)]
                 ELSE NoSigByte(b.kind)
            ELSE IF is_left_wildcard /\ is_right_wildcard
            THEN [kind |-> "value", sb |-> sig_byte_wildcard]
            ELSE IF is_left_wildcard
            THEN LET b == parse_byte_hex_str(<<byte_str[2]>>, ct) IN
                 IF b.kind = "value"
                 THEN [kind |-> "value", sb |-> sig_byte_low(b.byte)]
                 ELSE NoSigByte(b.kind)
            ELSE LET b == parse_byte_hex_str(<<byte_str[1]>>, ct) IN
                 IF b.kind = "value"
                 THEN [kind |-> "value", sb |-> sig_byte_high(b.byte)]
                 ELSE NoSigByte(b.kind)

\* 0b10000000 >> i
BitOf(i) == 2 ^ (7 - i)

RECURSIVE parse_sig_ghidra_loop(_, _, _, _, _, _)
\* the for loop of parse_sig_ghidra, from bit i (0-based) on
parse_sig_ghidra_loop(byte_str, i, target, mask, ct, gh) ==
    IF i = 8 THEN [kind |-> "value", sb |-> sig_byte_value_mask(target, mask)]
    ELSE LET ch == byte_str[i + 2] IN
         IF ch = "0"
         THEN parse_sig_ghidra_loop(byte_str, i + 1, target, mask + BitOf(i), ct, gh)
         ELSE IF ch = "1"
         THEN parse_sig_ghidra_loop(byte_str, i + 1, target + BitOf(i),
                                    mask + BitOf(i), ct, gh)
         ELSE IF is_char_wildcard(ch, gh)
         THEN parse_sig_ghidra_loop(byte_str, i + 1, target, mask, ct, gh)
         ELSE NoSigByte(ct_rt_assert_failed(ct))

\* impl::parse_sig_ghidra
parse_sig_ghidra(byte_str, ct, gh) ==
    IF ~(Len(byte_str) = 10 /\ byte_str[1] = "[" /\ byte_str[Len(byte_str)] = "]")
    THEN NoSigByte(ct_rt_assert_failed(ct))
    ELSE parse_sig_ghidra_loop(byte_str, 0, 0, 0, ct, gh)

\* impl::parse_sig_byte, of a token that is not empty
parse_sig_byte(byte_str, ct, gh) ==
    IF gh /\ byte_str[1] = "[" /\ byte_str[Len(byte_str)] = "]"
    THEN parse_sig_ghidra(byte_str, ct, gh)
    ELSE parse_sig_normal(byte_str, ct, gh)

\* what a parse of a text gives: a signature, or none (std::nullopt at run
\* time, a program that does not compile for the literal)
NoSignature == [ok |-> FALSE, bytes |-> <<>>]

RECURSIVE parse_sig_str_runtime_loop_Partial(_, _, _, _)
\* a mutant of parse_sig_str_runtime_loop: a malformed token ends the parse
\* with the bytes parsed so far
parse_sig_str_runtime_loop_Partial(bytes_vec, i, result, gh) ==
    IF i > Len(bytes_vec) THEN [ok |-> TRUE, bytes |-> result]
    ELSE LET b == parse_sig_byte(bytes_vec[i], FALSE, gh) IN
         IF b.kind # "value" THEN [ok |-> TRUE, bytes |-> result]
         ELSE parse_sig_str_runtime_loop_Partial(bytes_vec, i + 1,
                                                 Append(result, b.sb), gh)

RECURSIVE parse_sig_str_runtime_loop(_, _, _, _)
\* the for loop of parse_sig_str_runtime, from token i (1-based) on
parse_sig_str_runtime_loop(bytes_vec, i, result, gh) ==
    IF i > Len(bytes_vec) THEN [ok |-> TRUE, bytes |-> result]
    ELSE LET b == parse_sig_byte(bytes_vec[i], FALSE, gh) IN
         IF b.kind # "value" THEN NoSignature
         ELSE parse_sig_str_runtime_loop(bytes_vec, i + 1, Append(result, b.sb), gh)

\* impl::parse_sig_str_runtime
parse_sig_str_runtime(sig_str, gh) ==
    IF count_non_space_char(sig_str) % 2 # 0 THEN NoSignature
    ELSE parse_sig_str_runtime_loop(string_split(sig_str), 1, <<>>, gh)

\* signature::parse: the signature holds the bytes parsed
signature_parse(sig_str, gh) == parse_sig_str_runtime(sig_str, gh)

\* consteval_str_buffer{str}: the characters of the literal and the
\* terminating '\0', written "NUL"
consteval_str_buffer(str) == Append(str, "NUL")

\* a mutant of to_string_view: the view holds the whole buffer
to_string_view_WholeBuffer(data) == data

\* consteval_str_buffer::to_string_view: std::string_view{data}, the
\* characters before the first '\0'
to_string_view(data) ==
    LET n == CHOOSE i \in 1..Len(data) :
                 data[i] = "NUL" /\ \A j \in 1..(i - 1) : data[j] # "NUL"
    IN SubSeq(data, 1, n - 1)

RECURSIVE parse_sig_str_compile_time_loop(_, _, _, _)
\* the for loop of parse_sig_str_compile_time: a throw, or value() of an
\* empty optional, in a constant evaluation makes the program ill-formed
parse_sig_str_compile_time_loop(bytes_vec, i, result, gh) ==
    IF i > Len(bytes_vec) THEN [ok |-> TRUE, bytes |-> result]
    ELSE LET b == parse_sig_byte(bytes_vec[i], TRUE, gh) IN
         IF b.kind = "throw" \/ b.kind = "nullopt" THEN NoSignature
         ELSE parse_sig_str_compile_time_loop(bytes_vec, i + 1,
                                              Append(result, b.sb), gh)

\* impl::parse_sig_str_compile_time<kSigStrBuf>
parse_sig_str_compile_time(kSigStrBuf, gh) ==
    IF count_non_space_char(to_string_view(kSigStrBuf)) % 2 # 0
    THEN NoSignature
    ELSE parse_sig_str_compile_time_loop(
             string_split(to_string_view(kSigStrBuf)), 1, <<>>, gh)

\* operator""_sig: the signature holds a copy of the array parsed
literal_sig(str, gh) == parse_sig_str_compile_time(consteval_str_buffer(str), gh)

(***************************************************************************)
(* State.                                                                  *)
(***************************************************************************)
VARIABLES
    sb_args,          \* the sig_byte constructor called and its arguments
    sb,               \* <<the sig_byte constructed>>, <<>> before
    sb_probe,         \* <<the byte last handed to match() and the answer>>
    text,             \* the signature text handed to the parsers
    ghidra,           \* SIGMATCH_EXPERIMENTAL_ENABLE_GHIDRA_SIGNATURE_FORMAT defined
    parsed_rt,        \* <<what signature::parse(text) returned>>, <<>> before
    parsed_ct,        \* <<what the literal text_sig gave>>, <<>> before
    mem,              \* the bytes of the stream / of memory, from address 0
    sig,              \* the signature: a sequence of sig_byte
    m_pc,             \* the matcher: "new", "ready" or "length_error"
    m_last_unmatched, \* matcher::_last_unmatched
    m_result,         \* the result vector handed to every match() call
    m_pos,            \* bytes of mem fed to the matcher so far
    m_calls,          \* match() calls made so far
    m_sizes,          \* the sizes of the chunks fed so far, as a set
    searcher,         \* the searcher: kind, _block_size, _threads_max_count
    reader,           \* the reader the searcher / the context holds
    threshold,        \* SIGMATCH_MULTI_THREADED_SEARCH_SIZE_THRESHOLD
    store_each,       \* SIGMATCH_STORE_EACH_READING_FAILURE_WARNING_MESSAGE defined
    call,             \* the entry called: "range", "ranges" or "executor"
    ctx_error,        \* search_context::_error
    ranges,           \* the range(s) passed: [data, size], data an address
    pc,               \* where the calling thread is
    ri,               \* index into ranges of the range being searched
    li,               \* index into infos of the launch / join loop
    result,           \* the search_result passed by the caller
    infos,            \* std::vector<thread_info>: thread, range, result
    frames,           \* per thread (0: the caller), blocking_searcher::search's locals
    reads,            \* per thread, the reader::read calls made: address, size, ok
    stream            \* file_content_reader::_stream: the state bits that are set

sigByteVars == <<sb_args, sb, sb_probe>>

parseVars == <<text, ghidra, parsed_rt, parsed_ct>>

pureVars == <<sigByteVars, parseVars>>

matcherVars == <<m_pc, m_last_unmatched, m_result, m_pos, m_calls, m_sizes>>

configVars == <<searcher, reader, threshold, store_each, call, ctx_error, ranges>>

searchVars == <<pc, ri, li, result, infos, frames, reads, stream>>

vars == <<pureVars, mem, sig, matcherVars, configVars, searchVars>>

(***************************************************************************)
(* What a search is expected to find.                                      *)
(***************************************************************************)
\* whether the signature matches the bytes at addresses a .. a + L - 1
MatchesAt(a) ==
    /\ a >= 0
    /\ a + Len(sig) <= Len(mem)
    /\ \A k \in 1..Len(sig) : sig_byte_match(sig[k], mem[a + k])

\* the addresses in [first, last) where the signature matches wholly inside
MatchSet(first, last) ==
    {a \in first..(last - Len(sig)) : MatchesAt(a)}

RECURSIVE Ascending(_)
\* the elements of a finite set of numbers, in ascending order
Ascending(S) ==
    IF S = {} THEN <<>>
    ELSE LET lo == CHOOSE x \in S : \A y \in S : x <= y
         IN <<lo>> \o Ascending(S \ {lo})

\* whether a sequence of numbers is strictly ascending
StrictlyAscending(s) == \A i \in 1..(Len(s) - 1) : s[i] < s[i + 1]

(***************************************************************************)
(* search_result, and the searchers' pure parts.                           *)
(***************************************************************************)
\* search_result{}
EmptyResult ==
    [matches |-> <<>>, error_messages |-> <<>>, warning_messages |-> <<>>]

\* a mutant of search_result_add: the matches of rhs are put in front
search_result_add_Front(lhs, rhs) ==
    [matches |-> rhs.matches \o lhs.matches,
     error_messages |-> lhs.error_messages \o rhs.error_messages,
     warning_messages |-> lhs.warning_messages \o rhs.warning_messages]

\* search_result::operator+=(search_result &&)
search_result_add(lhs, rhs) ==
    [matches |-> lhs.matches \o rhs.matches,
     error_messages |-> lhs.error_messages \o rhs.error_messages,
     warning_messages |-> lhs.warning_messages \o rhs.warning_messages]

RECURSIVE std_sort(_)
\* std::sort(first, last, std::less<>{}) on a vector of addresses
std_sort(s) ==
    IF s = <<>> THEN <<>>
    ELSE LET rest == std_sort(Tail(s))
             below == SelectSeq(rest, LAMBDA x : x < Head(s))
             above == SelectSeq(rest, LAMBDA x : x >= Head(s))
         IN below \o <<Head(s)>> \o above

\* the thread ids: 0 is the calling thread, i >= 1 runs infos[i]
Threads == 0..MaxThreads

\* the locals of a blocking_searcher::search call that is not running
NoFrame ==
    [pc |-> "none", range |-> [data |-> 0, size |-> 0], i |-> 0,
     reading_failed |-> FALSE, last_unmatched |-> <<>>]

\* a mutant of blocking_search_enter: the block size is checked first
blocking_search_enter_CheckOrder(range, res) ==
    IF searcher.block_size = 0
    THEN [frame |-> [NoFrame EXCEPT !.pc = "returned"],
          result |-> [res EXCEPT !.error_messages =
                         Append(@, "The value of block_size cannot be 0.")]]
    ELSE IF sig = <<>>
    THEN [frame |-> [NoFrame EXCEPT !.pc = "returned"], result |-> res]
    ELSE [frame |-> [pc |-> "loop", range |-> range, i |-> 0,
                     reading_failed |-> FALSE, last_unmatched |-> <<>>],
          result |-> res]

\* a mutant of blocking_search_enter: a block size of 0 is not rejected
blocking_search_enter_NoCheck(range, res) ==
    IF sig = <<>>
    THEN [frame |-> [NoFrame EXCEPT !.pc = "returned"], result |-> res]
    ELSE [frame |-> [pc |-> "loop", range |-> range, i |-> 0,
                     reading_failed |-> FALSE, last_unmatched |-> <<>>],
          result |-> res]

\* blocking_searcher::search up to its loop: the two early returns, then
\* reading_failed = false and matcher matcher_{sig}
blocking_search_enter(range, res) ==
    IF sig = <<>>
    THEN [frame |-> [NoFrame EXCEPT !.pc = "returned"], result |-> res]
    ELSE IF searcher.block_size = 0
    THEN [frame |-> [NoFrame EXCEPT !.pc = "returned"],
          result |-> [res EXCEPT !.error_messages =
                         Append(@, "The value of block_size cannot be 0.")]]
    ELSE IF matcher_ctor(sig) # "ready"
    THEN [frame |-> [NoFrame EXCEPT !.pc = matcher_ctor(sig)], result |-> res]
    ELSE [frame |-> [pc |-> "loop", range |-> range, i |-> 0,
                     reading_failed |-> FALSE, last_unmatched |-> <<>>],
          result |-> res]

\* the block the loop of blocking_searcher::search reads next: ptr and size
block_of(frame) ==
    [address |-> frame.range.data + frame.i,
     size |-> Min(searcher.block_size, frame.range.size - frame.i)]

\* a mutant of blocking_search_step: the loop stops at the first failed read
blocking_search_step_Abort(frame, res, ok) ==
    LET ptr == block_of(frame).address
        size == block_of(frame).size
    IN IF ~ok
       THEN [frame |-> [frame EXCEPT !.reading_failed = TRUE,
                                     !.i = frame.range.size],
             result |-> res]
       ELSE LET r == match(sig, frame.last_unmatched,
                           Slice(mem, ptr, ptr + size), ptr, res.matches)
            IN [frame |-> [frame EXCEPT !.last_unmatched = r.last_unmatched,
                                        !.i = @ + searcher.block_size],
                result |-> [res EXCEPT !.matches = r.result]]

\* one iteration of the loop of blocking_searcher::search, the read of the
\* block returning ok
blocking_search_step(frame, res, ok) ==
    LET ptr == block_of(frame).address
        size == block_of(frame).size
    IN IF ~ok
       THEN [frame |-> [frame EXCEPT !.reading_failed = TRUE,
                                     !.i = @ + searcher.block_size],
             result |-> IF store_each
                        THEN [res EXCEPT !.warning_messages =
                                 Append(@, <<"Failed to read", size, ptr>>)]
                        ELSE res]
       ELSE LET r == match(sig, frame.last_unmatched,
                           Slice(mem, ptr, ptr + size), ptr, res.matches)
            IN [frame |-> [frame EXCEPT !.last_unmatched = r.last_unmatched,
                                        !.i = @ + searcher.block_size],
                result |-> [res EXCEPT !.matches = r.result]]

\* a mutant of blocking_search_exit: the summary warning is always added
blocking_search_exit_Always(frame, res) ==
    [res EXCEPT !.warning_messages =
        Append(@, "Some reads failed, the result may be incomplete.")]

\* blocking_searcher::search after its loop
blocking_search_exit(frame, res) ==
    IF frame.reading_failed
    THEN [res EXCEPT !.warning_messages =
             Append(@, "Some reads failed, the result may be incomplete.")]
    ELSE res

\* a mutant of multi_threaded_search_enter: a thread count of 0 makes the
\* search return without a word
multi_threaded_search_enter_Silent(res) ==
    IF sig = <<>> \/ searcher.threads_max_count = 0
    THEN [next |-> "returned", result |-> res]
    ELSE [next |-> "assign", result |-> res]

\* multi_threaded_searcher::search up to assign_tasks: the two early returns
multi_threaded_search_enter(res) ==
    IF sig = <<>>
    THEN [next |-> "returned", result |-> res]
    ELSE IF searcher.threads_max_count = 0
    THEN [next |-> "returned",
          result |-> [res EXCEPT !.error_messages =
                         Append(@, "The value of threads_max_count cannot be 0.")]]
    ELSE [next |-> "assign", result |-> res]

\* search_result::make_error
make_error(error) == [EmptyResult EXCEPT !.error_messages = <<error>>]

\* reader::error(): this_process_memory_reader has none; an
\* external_process_memory_reader whose process could not be opened has one
reader_error(r) ==
    IF r = "external_process_memory_reader" THEN "Failed to open process."
    ELSE IF r = "file_content_reader" /\ stream # {} THEN "Failed to open file."
    ELSE "nullopt"

\* a mutant of executor_search_enter: the error checks come after the check
\* for no ranges
executor_search_enter_RangesFirst(error, r, rs) ==
    IF rs = <<>> THEN [next |-> "returned", result |-> EmptyResult]
    ELSE IF error # "nullopt"
    THEN [next |-> "returned", result |-> make_error(error)]
    ELSE IF reader_error(r) # "nullopt"
    THEN [next |-> "returned", result |-> make_error(reader_error(r))]
    ELSE [next |-> "search", result |-> EmptyResult]

\* search_context::executor::search of a context whose reader, where the
\* code uses it, is not null: the early returns
executor_search_enter(error, r, rs) ==
    IF error # "nullopt"
    THEN [next |-> "returned", result |-> make_error(error)]
    ELSE IF reader_error(r) # "nullopt"
    THEN [next |-> "returned", result |-> make_error(reader_error(r))]
    ELSE IF rs = <<>>
    THEN [next |-> "returned", result |-> EmptyResult]
    ELSE [next |-> "search", result |-> EmptyResult]

\* what range.size() / min_size_for_one_thread can do: a division by zero is
\* undefined; the build either traps or goes on with a quotient of 0
DivOutcomes(n, d) ==
    IF d = 0
    THEN {[trap |-> TRUE, q |-> 0], [trap |-> FALSE, q |-> 0]}
    ELSE {[trap |-> FALSE, q |-> n \div d]}

\* a mutant of appropriate_data: threads_max_count threads whatever the size
appropriate_data_AlwaysMax(range, q) ==
    <<searcher.threads_max_count, range.size \div searcher.threads_max_count>>

\* multi_threaded_searcher::appropriate_data, q being the outcome of the
\* division range.size() / min_size_for_one_thread (evaluated only in the
\* first branch): <<threads_count, average_size>>
appropriate_data(range, q) ==
    LET threads_count ==
            IF range.size <= searcher.threads_max_count * threshold
            THEN Max(q, 1)
            ELSE searcher.threads_max_count
    IN <<threads_count, range.size \div threads_count>>

\* a mutant of assign_tasks: the sub-ranges overlap by a whole signature
assign_tasks_WideOverlap(range, data) ==
    [i \in 1..data[1] |->
        LET offset == (i - 1) * data[2]
            size == Min(data[2] + Len(sig), range.size - offset)
            next_size == range.size - offset - size
        IN [thread |-> "none",
            range |-> [data |-> range.data + offset,
                       size |-> IF i = data[1] /\ next_size > 0
                                THEN size + next_size ELSE size],
            result |-> EmptyResult]]

\* a mutant of assign_tasks: the sub-ranges do not overlap
assign_tasks_NoOverlap(range, data) ==
    [i \in 1..data[1] |->
        LET offset == (i - 1) * data[2]
            size == Min(data[2], range.size - offset)
            next_size == range.size - offset - size
        IN [thread |-> "none",
            range |-> [data |-> range.data + offset,
                       size |-> IF i = data[1] /\ next_size > 0
                                THEN size + next_size ELSE size],
            result |-> EmptyResult]]

\* a mutant of assign_tasks: the last sub-range does not take the remainder
assign_tasks_NoRemainder(range, data) ==
    [i \in 1..data[1] |->
        LET offset == (i - 1) * data[2]
            size == Min(data[2] + Len(sig) - 1, range.size - offset)
        IN [thread |-> "none",
            range |-> [data |-> range.data + offset, size |-> size],
            result |-> EmptyResult]]

\* multi_threaded_searcher::assign_tasks, data being appropriate_data(range)
assign_tasks(range, data) ==
    [i \in 1..data[1] |->
        LET offset == (i - 1) * data[2]
            size == Min(data[2] + Len(sig) - 1, range.size - offset)
            next_size == range.size - offset - size
        IN [thread |-> "none",
            range |-> [data |-> range.data + offset,
                       size |-> IF i = data[1] /\ next_size > 0
                                THEN size + next_size ELSE size],
            result |-> EmptyResult]]

RECURSIVE merge_from_Reverse(_, _, _)
\* a mutant of merge_from: the results are added from the last partition to
\* the first
merge_from_Reverse(res, threads, i) ==
    IF i > Len(threads) THEN res
    ELSE search_result_add(merge_from_Reverse(res, threads, i + 1),
                           threads[i].result)

RECURSIVE merge_from(_, _, _)
\* the merge loop of multi_threaded_searcher::search, from infos[i] on
merge_from(res, threads, i) ==
    IF i > Len(threads) THEN res
    ELSE merge_from(search_result_add(res, threads[i].result), threads, i + 1)

\* a mutant of merge_and_sort: the merged matches are left unsorted
merge_and_sort_NoSort(res, threads) == merge_from(res, threads, 1)

\* multi_threaded_searcher::search after the joins: merge, then sort
merge_and_sort(res, threads) ==
    [merge_from(res, threads, 1) EXCEPT !.matches = std_sort(@)]

(***************************************************************************)
(* Spec: one call of searcher::search, on one range or on a list.          *)
(***************************************************************************)
\* the searchers a caller may construct
Searchers ==
    [kind : {"blocking"}, block_size : 0..MaxBlock, threads_max_count : {0}]
    \cup [kind : {"multi_threaded"}, block_size : 0..MaxBlock,
          threads_max_count : 0..MaxThreads]

\* the lists of ranges a caller may pass for n bytes of memory: the two
\* parts of the memory cut at p, in either order
RangeLists(n) ==
    UNION {{<<[data |-> 0, size |-> p], [data |-> p, size |-> n - p]>>,
            <<[data |-> p, size |-> n - p], [data |-> 0, size |-> p]>>} :
           p \in 0..n}

\* the sig_byte and parser part of the state when neither is exercised
PureIdle ==
    /\ sb_args = [kind |-> "none", a |-> 0, b |-> 0]
    /\ sb = <<>>
    /\ sb_probe = <<>>
    /\ text = <<>>
    /\ ghidra = FALSE
    /\ parsed_rt = <<>>
    /\ parsed_ct = <<>>

\* the search part of the state before any call
SearchIdle ==
    /\ searcher = [kind |-> "blocking", block_size |-> 0, threads_max_count |-> 0]
    /\ reader = "none"
    /\ threshold = 1
    /\ store_each = FALSE
    /\ call = "range"
    /\ ctx_error = "nullopt"
    /\ ranges = <<>>
    /\ pc = "idle"
    /\ ri = 1
    /\ li = 1
    /\ result = EmptyResult
    /\ infos = <<>>
    /\ stream = {}
    /\ frames = [t \in Threads |-> NoFrame]
    /\ reads = [t \in Threads |-> <<>>]

\* the matcher part of the state when no matcher is exercised
MatcherIdle ==
    /\ m_pc = "none"
    /\ m_last_unmatched = <<>>
    /\ m_result = <<>>
    /\ m_pos = 0
    /\ m_calls = 0
    /\ m_sizes = {}

\* what a caller and a build may choose, apart from the ranges
InitSearch ==
    /\ mem \in SeqsUpTo(Bytes, MaxMem)
    /\ sig \in SeqsUpTo(SigBytes, MaxSigLen)
    /\ searcher \in Searchers
    /\ threshold \in IF searcher.kind = "blocking" THEN {1} ELSE 0..MaxThreshold
    /\ pc = "start"
    /\ ri = 1
    /\ li = 1
    /\ result = EmptyResult
    /\ infos = <<>>
    /\ stream = {}
    /\ frames = [t \in Threads |-> NoFrame]
    /\ reads = [t \in Threads |-> <<>>]
    /\ MatcherIdle
    /\ PureIdle

\* a call of search(range, sig, result) on the whole memory, with a
\* this_process_memory_reader, in the default build
Init ==
    /\ InitSearch
    /\ reader = "this_process_memory_reader"
    /\ store_each = FALSE
    /\ call = "range"
    /\ ctx_error = "nullopt"
    /\ ranges = <<[data |-> 0, size |-> Len(mem)]>>

\* a call of search(ranges, sig, result) on two parts of the memory
InitRanges ==
    /\ InitSearch
    /\ reader = "this_process_memory_reader"
    /\ store_each = FALSE
    /\ call = "ranges"
    /\ ctx_error = "nullopt"
    /\ ranges \in RangeLists(Len(mem))

\* a call of search(range, sig, result) of a blocking_searcher whose reader
\* may fail to read, in a build with or without the warning of each failure
InitUnreliable ==
    /\ InitSearch
    /\ searcher.kind = "blocking"
    /\ reader = "unreliable"
    /\ store_each \in BOOLEAN
    /\ call = "range"
    /\ ctx_error = "nullopt"
    /\ ranges = <<[data |-> 0, size |-> Len(mem)]>>

\* the number of reads that failed so far
FailCount ==
    LET RECURSIVE sum(_)
        sum(t) == IF t > MaxThreads THEN 0
                  ELSE Len(SelectSeq(reads[t], LAMBDA r : ~r.ok)) + sum(t + 1)
    IN sum(0)

\* file_content_reader::read of a block of the file that holds mem, the
\* stream being in state st: seekg clears eofbit and moves only if failbit
\* and badbit are clear; read extracts only from a good stream, and sets
\* eofbit and failbit when the file ends before size bytes; the answer is
\* _stream.good()
file_content_reader_read(st, block) ==
    LET sought == st \ {"eofbit"}
        after == IF sought # {} THEN sought \cup {"failbit"}
                 ELSE IF block.address + block.size > Len(mem)
                 THEN {"eofbit", "failbit"}
                 ELSE {}
    IN [ok |-> after = {}, stream |-> after]

\* what reader::read may return for a block: this_process_memory_reader::read
\* returns true; external_process_memory_reader::read of a process that was
\* not opened returns false; file_content_reader::read is as above; a custom
\* reader may fail
ReadOutcomes(block) ==
    IF reader = "this_process_memory_reader" THEN {TRUE}
    ELSE IF reader = "external_process_memory_reader" THEN {FALSE}
    ELSE IF reader = "file_content_reader"
    THEN {file_content_reader_read(stream, block).ok}
    ELSE IF FailCount < MaxFails THEN {TRUE, FALSE} ELSE {TRUE}

\* the state of _stream after a read of the block
StreamAfter(block) ==
    IF reader = "file_content_reader"
    THEN file_content_reader_read(stream, block).stream
    ELSE stream

\* where the calling thread goes when search(range, sig, result) returns
Returned ==
    /\ pc' = IF call = "range" THEN "done" ELSE "for_ranges"
    /\ ri' = IF call = "range" THEN ri ELSE ri + 1

\* the caller calls searcher.search(range, sig, result)
CallSearchRange ==
    /\ pc = "start"
    /\ call = "range"
    /\ pc' = "search"
    /\ UNCHANGED <<pureVars, mem, sig, matcherVars, configVars, stream, ri, li, result, infos, frames, reads>>

\* the caller calls searcher.search(ranges, sig, result)
CallSearchRanges ==
    /\ pc = "start"
    /\ call = "ranges"
    /\ pc' = "for_ranges"
    /\ UNCHANGED <<pureVars, mem, sig, matcherVars, configVars, stream, ri, li, result, infos, frames, reads>>

\* searcher::search(ranges, ...): one turn of the for loop
ForRanges ==
    /\ pc = "for_ranges"
    /\ \/ /\ ri > Len(ranges)
          /\ pc' = "done"
          /\ ri' = ri
       \/ /\ ri <= Len(ranges)
          /\ ranges[ri].size = 0
          /\ pc' = pc
          /\ ri' = ri + 1
       \/ /\ ri <= Len(ranges)
          /\ ranges[ri].size # 0
          /\ pc' = "search"
          /\ ri' = ri
    /\ UNCHANGED <<pureVars, mem, sig, matcherVars, configVars, stream, li, result, infos, frames, reads>>

\* the virtual call lands in blocking_searcher::search
BlockingSearch ==
    /\ pc = "search"
    /\ searcher.kind = "blocking"
    /\ pc' = "blocking"
    /\ UNCHANGED <<pureVars, mem, sig, matcherVars, configVars, stream, ri, li, result, infos, frames, reads>>

\* blocking_searcher::search on the calling thread, up to its loop
BlockingEnter ==
    /\ pc = "blocking"
    /\ LET e == blocking_search_enter(ranges[ri], result) IN
       /\ result' = e.result
       /\ \/ /\ e.frame.pc = "loop"
             /\ frames' = [frames EXCEPT ![0] = e.frame]
             /\ pc' = "loop"
             /\ ri' = ri
          \/ /\ e.frame.pc = "returned"
             /\ frames' = frames
             /\ Returned
    /\ UNCHANGED <<pureVars, mem, sig, matcherVars, configVars, stream, li, infos, reads>>

\* blocking_searcher::search on the calling thread: one block
BlockingRead ==
    /\ pc = "loop"
    /\ frames[0].i < frames[0].range.size
    /\ stream' = StreamAfter(block_of(frames[0]))
    /\ \E ok \in ReadOutcomes(block_of(frames[0])) :
         LET st == blocking_search_step(frames[0], result, ok) IN
         /\ frames' = [frames EXCEPT ![0] = st.frame]
         /\ result' = st.result
         /\ reads' = [reads EXCEPT ![0] =
                         Append(@, [address |-> block_of(frames[0]).address,
                                    size |-> block_of(frames[0]).size,
                                    ok |-> ok])]
    /\ UNCHANGED <<pureVars, mem, sig, matcherVars, configVars, pc, ri, li, infos>>

\* blocking_searcher::search on the calling thread: after the loop
BlockingReturn ==
    /\ pc = "loop"
    /\ frames[0].i >= frames[0].range.size
    /\ result' = blocking_search_exit(frames[0], result)
    /\ frames' = [frames EXCEPT ![0] = [NoFrame EXCEPT !.pc = "returned"]]
    /\ Returned
    /\ UNCHANGED <<pureVars, mem, sig, matcherVars, configVars, stream, li, infos, reads>>

\* multi_threaded_searcher::search up to the launch of the threads
MultiThreadedSearch ==
    /\ pc = "search"
    /\ searcher.kind = "multi_threaded"
    /\ LET e == multi_threaded_search_enter(result) IN
       /\ result' = e.result
       /\ \/ /\ e.next = "returned"
             /\ Returned
             /\ UNCHANGED <<infos, li>>
          \/ /\ e.next = "assign"
             /\ \E d \in IF ranges[ri].size <= searcher.threads_max_count * threshold
                         THEN DivOutcomes(ranges[ri].size, threshold)
                         ELSE {[trap |-> FALSE, q |-> 0]} :
                  \/ /\ d.trap
                     /\ pc' = "crashed"
                     /\ UNCHANGED <<ri, li, infos>>
                  \/ /\ ~d.trap
                     /\ infos' = assign_tasks(ranges[ri],
                                              appropriate_data(ranges[ri], d.q))
                     /\ pc' = IF Len(infos') <= 1 THEN "blocking" ELSE "launch"
                     /\ li' = 1
                     /\ ri' = ri
    /\ UNCHANGED <<pureVars, mem, sig, matcherVars, configVars, stream, frames, reads>>

\* the launch loop: info.thread = std::thread{search_thread, ...}
LaunchThread ==
    /\ pc = "launch"
    /\ infos' = [infos EXCEPT ![li].thread = "running"]
    /\ frames' = [frames EXCEPT ![li] = [NoFrame EXCEPT !.pc = "enter"]]
    /\ li' = IF li = Len(infos) THEN 1 ELSE li + 1
    /\ pc' = IF li = Len(infos) THEN "join" ELSE "launch"
    /\ UNCHANGED <<pureVars, mem, sig, matcherVars, configVars, stream, ri, result, reads>>

\* search_thread -> blocking_searcher::search on worker t, up to its loop
WorkerEnter(t) ==
    /\ t <= Len(infos)
    /\ infos[t].thread = "running"
    /\ frames[t].pc = "enter"
    /\ LET e == blocking_search_enter(infos[t].range, infos[t].result) IN
       /\ frames' = [frames EXCEPT ![t] = e.frame]
       /\ infos' = [infos EXCEPT ![t].result = e.result,
                                 ![t].thread = IF e.frame.pc = "loop"
                                               THEN "running" ELSE "finished"]
    /\ UNCHANGED <<pureVars, mem, sig, matcherVars, configVars, stream, pc, ri, li, result, reads>>

\* blocking_searcher::search on worker t: one block
WorkerRead(t) ==
    /\ t <= Len(infos)
    /\ infos[t].thread = "running"
    /\ frames[t].pc = "loop"
    /\ frames[t].i < frames[t].range.size
    /\ stream' = StreamAfter(block_of(frames[t]))
    /\ \E ok \in ReadOutcomes(block_of(frames[t])) :
         LET st == blocking_search_step(frames[t], infos[t].result, ok) IN
         /\ frames' = [frames EXCEPT ![t] = st.frame]
         /\ infos' = [infos EXCEPT ![t].result = st.result]
         /\ reads' = [reads EXCEPT ![t] =
                         Append(@, [address |-> block_of(frames[t]).address,
                                    size |-> block_of(frames[t]).size,
                                    ok |-> ok])]
    /\ UNCHANGED <<pureVars, mem, sig, matcherVars, configVars, pc, ri, li, result>>

\* blocking_searcher::search on worker t: after the loop; the thread ends
WorkerReturn(t) ==
    /\ t <= Len(infos)
    /\ infos[t].thread = "running"
    /\ frames[t].pc = "loop"
    /\ frames[t].i >= frames[t].range.size
    /\ infos' = [infos EXCEPT
                    ![t].result = blocking_search_exit(frames[t], @),
                    ![t].thread = "finished"]
    /\ frames' = [frames EXCEPT ![t] = [NoFrame EXCEPT !.pc = "returned"]]
    /\ UNCHANGED <<pureVars, mem, sig, matcherVars, configVars, stream, pc, ri, li, result, reads>>

\* the join loop: info.thread.join() returns once the thread has ended
JoinThread ==
    /\ pc = "join"
    /\ infos[li].thread = "finished"
    /\ infos' = [infos EXCEPT ![li].thread = "joined"]
    /\ li' = IF li = Len(infos) THEN 1 ELSE li + 1
    /\ pc' = IF li = Len(infos) THEN "merge" ELSE "join"
    /\ UNCHANGED <<pureVars, mem, sig, matcherVars, configVars, stream, ri, result, frames, reads>>

\* multi_threaded_searcher::search: merge, sort and return
MergeAndSort ==
    /\ pc = "merge"
    /\ result' = merge_and_sort(result, infos)
    /\ Returned
    /\ UNCHANGED <<pureVars, mem, sig, matcherVars, configVars, stream, li, infos, frames, reads>>

\* the steps of search(range, sig, result), of either searcher
SearchStep ==
    \/ BlockingSearch
    \/ BlockingEnter
    \/ BlockingRead
    \/ BlockingReturn
    \/ MultiThreadedSearch
    \/ LaunchThread
    \/ \E t \in 1..MaxThreads : WorkerEnter(t)
    \/ \E t \in 1..MaxThreads : WorkerRead(t)
    \/ \E t \in 1..MaxThreads : WorkerReturn(t)
    \/ JoinThread
    \/ MergeAndSort

Next == CallSearchRange \/ SearchStep

Spec == Init /\ [][Next]_vars

NextRanges == CallSearchRanges \/ ForRanges \/ SearchStep

SpecRanges == InitRanges /\ [][NextRanges]_vars

NextBlocking ==
    \/ CallSearchRange
    \/ BlockingSearch
    \/ BlockingEnter
    \/ BlockingRead
    \/ BlockingReturn

SpecUnreliable == InitUnreliable /\ [][NextBlocking]_vars

\* a call of search(range, sig, result) of a multi_threaded_searcher with two
\* threads on the whole memory, with a reader whose reads may fail, in a build that stores
\* a warning for each failed read
InitUnreliableThreads ==
    /\ InitSearch
    /\ searcher.kind = "multi_threaded"
    /\ searcher.threads_max_count = 2
    /\ searcher.block_size >= 1
    /\ Len(mem) >= 1
    /\ threshold = 1
    /\ reader = "unreliable"
    /\ store_each = TRUE
    /\ call = "range"
    /\ ctx_error = "nullopt"
    /\ ranges = <<[data |-> 0, size |-> Len(mem)]>>

NextThreads ==
    \/ CallSearchRange
    \/ BlockingEnter
    \/ BlockingRead
    \/ BlockingReturn
    \/ MultiThreadedSearch
    \/ LaunchThread
    \/ \E t \in 1..MaxThreads : WorkerEnter(t)
    \/ \E t \in 1..MaxThreads : WorkerRead(t)
    \/ \E t \in 1..MaxThreads : WorkerReturn(t)
    \/ JoinThread
    \/ MergeAndSort

SpecUnreliableThreads == InitUnreliableThreads /\ [][NextThreads]_vars

\* a call of search(range, sig, result) of a multi_threaded_searcher with two
\* threads and a file_content_reader on a file that holds mem and was opened;
\* the range starts at offset 0 and may reach past the end of the file
InitFile ==
    /\ InitSearch
    /\ searcher.kind = "multi_threaded"
    /\ searcher.threads_max_count = 2
    /\ searcher.block_size >= 1
    /\ threshold = 1
    /\ reader = "file_content_reader"
    /\ store_each = FALSE
    /\ call = "range"
    /\ ctx_error = "nullopt"
    /\ \E n \in 1..(Len(mem) + MaxPastEnd) : ranges = <<[data |-> 0, size |-> n]>>

SpecFile == InitFile /\ [][NextThreads]_vars

\* a call of search(range, sig, result) on the whole memory by either
\* searcher, with a reader whose reads succeed or may fail
InitLive ==
    /\ InitSearch
    /\ reader \in {"this_process_memory_reader", "unreliable"}
    /\ store_each = FALSE
    /\ call = "range"
    /\ ctx_error = "nullopt"
    /\ ranges = <<[data |-> 0, size |-> Len(mem)]>>

\* the steps of the thread that called search
CallerStep ==
    \/ CallSearchRange
    \/ BlockingSearch
    \/ BlockingEnter
    \/ BlockingRead
    \/ BlockingReturn
    \/ MultiThreadedSearch
    \/ LaunchThread
    \/ JoinThread
    \/ MergeAndSort

\* the steps of the thread started for partition t
WorkerStep(t) == WorkerEnter(t) \/ WorkerRead(t) \/ WorkerReturn(t)

\* every thread that can run does run: the calling thread and each
\* std::thread are scheduled by the operating system, and every read returns
SpecLive ==
    /\ InitLive
    /\ [][Next]_vars
    /\ WF_vars(CallerStep)
    /\ \A t \in 1..MaxThreads : WF_vars(WorkerStep(t))

(***************************************************************************)
(* SpecContext: search_context::executor::search.                          *)
(***************************************************************************)
\* the contexts a target hands out: search_context::make_error(error), with
\* no reader and no ranges, and search_context(ranges, reader), the reader
\* being null, one that could not open its process, or a working one
Contexts(n) ==
    {[error |-> "Module not found or failed.", reader |-> "null", ranges |-> <<>>]}
    \cup [error : {"nullopt"},
          reader : {"null", "external_process_memory_reader",
                    "this_process_memory_reader"},
          ranges : {<<>>, <<[data |-> 0, size |-> n]>>}]

\* a call of executor::search(sig) in the default build
InitContext ==
    /\ InitSearch
    /\ threshold = 1
    /\ store_each = FALSE
    /\ call = "executor"
    /\ \E c \in Contexts(Len(mem)) :
          /\ ctx_error = c.error
          /\ reader = c.reader
          /\ ranges = c.ranges

\* executor::search(sig) up to _searcher.search(_ctx._ranges, sig, result)
ExecutorSearch ==
    /\ pc = "start"
    /\ call = "executor"
    /\ \/ \* _ctx._reader->error() on a null pointer is undefined: the call
          \* crashes, or the null check after it is still reached
          /\ ctx_error = "nullopt"
          /\ reader = "null"
          /\ \/ pc' = "crashed" /\ result' = result
             \/ pc' = "done" /\ result' = make_error("No reader.")
       \/ /\ ~(ctx_error = "nullopt" /\ reader = "null")
          /\ LET e == executor_search_enter(ctx_error, reader, ranges) IN
             /\ result' = e.result
             /\ pc' = IF e.next = "returned" THEN "done" ELSE "for_ranges"
    /\ UNCHANGED <<pureVars, mem, sig, matcherVars, configVars, stream, ri, li, infos, frames, reads>>

NextContext == ExecutorSearch \/ ForRanges \/ SearchStep

SpecContext == InitContext /\ [][NextContext]_vars

(***************************************************************************)
(* SpecSigByte: a sig_byte is constructed and bytes are matched with it.   *)
(***************************************************************************)
\* the byte values used as constructor arguments and handed to match():
\* 0x00 0x01 0x0B 0x0C 0x0F 0x12 0x1B 0x1C 0xAC 0xF0 0xFF
ProbeBytes == {0, 1, 11, 12, 15, 18, 27, 28, 172, 240, 255}

\* the constructor calls
CtorCalls ==
    [kind : {"value_mask"}, a : ProbeBytes, b : ProbeBytes]
    \cup [kind : {"value", "left_wildcard", "wildcard_right"}, a : ProbeBytes, b : {0}]
    \cup [kind : {"wildcard"}, a : {0}, b : {0}]

\* the sig_byte a constructor call makes
sig_byte_ctor(args) ==
    CASE args.kind = "value_mask" -> sig_byte_value_mask(args.a, args.b)
      [] args.kind = "value" -> sig_byte_full(args.a)
      [] args.kind = "left_wildcard" -> sig_byte_high(args.a)
      [] args.kind = "wildcard_right" -> sig_byte_low(args.a)
      [] args.kind = "wildcard" -> sig_byte_wildcard

InitSigByte ==
    /\ sb_args \in CtorCalls
    /\ sb = <<>>
    /\ sb_probe = <<>>
    /\ text = <<>>
    /\ ghidra = FALSE
    /\ parsed_rt = <<>>
    /\ parsed_ct = <<>>
    /\ mem = <<>>
    /\ sig = <<>>
    /\ MatcherIdle
    /\ SearchIdle

\* sig_byte{...}
SigByteConstruct ==
    /\ sb = <<>>
    /\ sb' = <<sig_byte_ctor(sb_args)>>
    /\ UNCHANGED <<sb_args, sb_probe, parseVars, mem, sig, matcherVars,
                   configVars, searchVars>>

\* sb.match(value)
SigByteMatch ==
    /\ sb # <<>>
    /\ \E value \in ProbeBytes :
          sb_probe' = <<[value |-> value, matched |-> sig_byte_match(sb[1], value)]>>
    /\ UNCHANGED <<sb_args, sb, parseVars, mem, sig, matcherVars,
                   configVars, searchVars>>

NextSigByte == SigByteConstruct \/ SigByteMatch

SpecSigByte == InitSigByte /\ [][NextSigByte]_vars

(***************************************************************************)
(* SpecParse: a text is parsed at run time and as a literal.               *)
(***************************************************************************)
\* the pieces the texts of the model are put together from: a space, two
\* spaces, a tab, well-formed tokens of every form and malformed ones
Pieces ==
    {<<" ">>, <<" ", " ">>, <<"\t">>,
     <<"1", "A">>, <<"7", "d">>, <<"?", "B">>, <<"*", "d">>,
     <<"9", "?">>, <<"4", "*">>, <<"*", "?">>, <<"6", ".">>,
     <<"h", "?">>, <<"7">>,
     <<"[", "0", "0", ".", "?", "*", "1", "0", "1", "]">>,
     <<"[", "0", "0", ".", ".", ".", "2", "0", "1", "]">>,
     <<"[", "0", "0", ".", ".", ".", "1", "0", "]">>}

RECURSIVE TextsOf(_)
\* the texts made of at most n pieces
TextsOf(n) ==
    IF n = 0 THEN {<<>>}
    ELSE TextsOf(n - 1) \cup {t \o q : t \in TextsOf(n - 1), q \in Pieces}

InitParse ==
    /\ text \in TextsOf(MaxPieces)
    /\ ghidra \in BOOLEAN
    /\ parsed_rt = <<>>
    /\ parsed_ct = <<>>
    /\ sb_args = [kind |-> "none", a |-> 0, b |-> 0]
    /\ sb = <<>>
    /\ sb_probe = <<>>
    /\ mem = <<>>
    /\ sig = <<>>
    /\ MatcherIdle
    /\ SearchIdle

\* signature::parse(text)
ParseRuntime ==
    /\ parsed_rt = <<>>
    /\ parsed_rt' = <<signature_parse(text, ghidra)>>
    /\ UNCHANGED <<sigByteVars, text, ghidra, parsed_ct, mem, sig, matcherVars,
                   configVars, searchVars>>

\* "text"_sig
ParseLiteral ==
    /\ parsed_ct = <<>>
    /\ parsed_ct' = <<literal_sig(text, ghidra)>>
    /\ UNCHANGED <<sigByteVars, text, ghidra, parsed_rt, mem, sig, matcherVars,
                   configVars, searchVars>>

NextParse == ParseRuntime \/ ParseLiteral

SpecParse == InitParse /\ [][NextParse]_vars

(***************************************************************************)
(* SpecMatcher: one matcher fed a stream in consecutive chunks.            *)
(***************************************************************************)
InitMatcher ==
    /\ mem \in SeqsUpTo(Bytes, MaxStream)
    /\ sig \in SeqsUpTo(SigBytes, MaxSigLen)
    /\ m_pc = "new"
    /\ m_last_unmatched = <<>>
    /\ m_result = <<>>
    /\ m_pos = 0
    /\ m_calls = 0
    /\ m_sizes = {}
    /\ SearchIdle
    /\ PureIdle

\* matcher matcher_{sig}
MatcherConstruct ==
    /\ m_pc = "new"
    /\ m_pc' = matcher_ctor(sig)
    /\ UNCHANGED <<mem, sig, m_last_unmatched, m_result, m_pos, m_calls, m_sizes>>
    /\ UNCHANGED <<pureVars, configVars, searchVars>>

\* matcher_.match(chunk, base address of the chunk, result), the chunk being
\* the next n bytes of the stream
MatcherMatch ==
    /\ m_pc = "ready"
    /\ m_calls < MaxCalls
    /\ \E n \in 0..(Len(mem) - m_pos) :
         LET r == match(sig, m_last_unmatched, Slice(mem, m_pos, m_pos + n),
                        m_pos, m_result)
         IN /\ m_last_unmatched' = r.last_unmatched
            /\ m_result' = r.result
            /\ m_pos' = m_pos + n
            /\ m_sizes' = m_sizes \cup {n}
    /\ m_calls' = m_calls + 1
    /\ UNCHANGED <<mem, sig, m_pc>>
    /\ UNCHANGED <<pureVars, configVars, searchVars>>

NextMatcher == MatcherConstruct \/ MatcherMatch

SpecMatcher == InitMatcher /\ [][NextMatcher]_vars

(***************************************************************************)
(* C1: chunk-size independence of the matcher.                             *)
(***************************************************************************)
\* C1: for a non-empty signature, once the chunks fed to one matcher add up
\* to the whole stream, the result holds exactly the addresses where the
\* signature matches the stream, each once, in strictly ascending order,
\* whatever the chunk sizes were (one chunk, chunks shorter than the
\* signature, empty chunks); before that it holds exactly the matches that
\* end inside the bytes fed so far.
C1_ChunkIndependence ==
    m_pc = "ready" =>
        /\ m_result = Ascending(MatchSet(0, m_pos))
        /\ StrictlyAscending(m_result)

\* C1 witness: a stream fed in at least three chunks, one of them empty and
\* one shorter than the signature, in which a match was found that starts
\* before the base address of the last non-empty chunk
C1_Witness ==
    /\ m_pc = "ready"
    /\ m_pos = Len(mem)
    /\ Len(sig) = 3
    /\ m_calls >= 3
    /\ 0 \in m_sizes
    /\ 1 \in m_sizes
    /\ Len(m_result) >= 2

(***************************************************************************)
(* What the claims about the searchers speak of.                           *)
(***************************************************************************)
\* how often x occurs in the sequence s
Count(s, x) == Len(SelectSeq(s, LAMBDA y : y = x))

\* whether a sequence of numbers never descends
NonDescending(s) == \A i \in 1..(Len(s) - 1) : s[i] <= s[i + 1]

\* the reads made so far, of all threads, as a set
AllReads == UNION {{reads[t][j] : j \in 1..Len(reads[t])} : t \in Threads}

\* the call returned, of a searcher built with usable parameters, for a
\* signature that is not empty
SearchedAndDone ==
    /\ pc = "done"
    /\ sig # <<>>
    /\ searcher.block_size >= 1
    /\ searcher.kind = "multi_threaded" => searcher.threads_max_count >= 1

\* the result of a search of the whole memory that found every match
FullResult ==
    [matches |-> Ascending(MatchSet(0, Len(mem))),
     error_messages |-> <<>>, warning_messages |-> <<>>]

(***************************************************************************)
(* C2: the two searchers agree.                                            *)
(***************************************************************************)
\* C2: with a reader whose reads all succeed and a signature that is not
\* empty, a blocking_searcher of any block size >= 1 and a
\* multi_threaded_searcher of any threads_max_count >= 1 and block size >= 1
\* return the same search_result for a range: the addresses of all matches
\* in ascending order, no error and no warning.  The result a returned call
\* leaves is a function of the memory and the signature alone, so any two
\* searchers return equal results.
C2_SearchersAgree == SearchedAndDone => result = FullResult

\* C2 witness: a multi-threaded search that ran two workers with a block
\* size of 2 and returned at least two matches
C2_Witness ==
    /\ SearchedAndDone
    /\ searcher.kind = "multi_threaded"
    /\ searcher.block_size = 2
    /\ Len(infos) = 2
    /\ Len(result.matches) >= 2
    /\ result = FullResult

(***************************************************************************)
(* C3: the overlap of the partitions.                                      *)
(***************************************************************************)
\* how many workers' results hold address a, counted with repetition
WorkerCount(a) ==
    LET RECURSIVE sum(_)
        sum(t) == IF t > Len(infos) THEN 0
                  ELSE Count(infos[t].result.matches, a) + sum(t + 1)
    IN sum(1)

\* C3: in a multi-threaded search with more than one worker and a block size
\* >= 1, once all workers are joined every address where the signature matches is in the
\* result of exactly one worker, once, and no other address is in any
\* worker's result; the merged result holds every match exactly once.
C3_OverlapExact ==
    (Len(infos) > 1 /\ searcher.block_size >= 1 /\ pc \in {"merge", "done"}) =>
        \A a \in 0..Len(mem) :
            /\ WorkerCount(a) = IF MatchesAt(a) THEN 1 ELSE 0
            /\ pc = "done" =>
                   Count(result.matches, a) = IF MatchesAt(a) THEN 1 ELSE 0

\* C3 witness: two workers were joined; one match straddles the start of
\* the second partition, one starts on its first byte and one lies wholly
\* inside the first partition
C3_Witness ==
    /\ pc = "done"
    /\ Len(infos) = 2
    /\ Len(sig) = 2
    /\ \E a \in MatchSet(0, Len(mem)) :
          a < infos[2].range.data /\ a + Len(sig) > infos[2].range.data
    /\ MatchesAt(infos[2].range.data)
    /\ \E a \in MatchSet(0, Len(mem)) : a + Len(sig) <= infos[2].range.data
    /\ \A a \in MatchSet(0, Len(mem)) : Count(result.matches, a) = 1

(***************************************************************************)
(* C4: overlapping occurrences.                                            *)
(***************************************************************************)
\* whether every byte at addresses first .. last - 1 satisfies every byte
\* of the signature
IsRun(first, last) ==
    \A a \in first..(last - 1) :
        \A k \in 1..Len(sig) : sig_byte_match(sig[k], mem[a + 1])

\* C4: over every run of n >= L consecutive bytes that all satisfy every
\* pattern byte, a returned search reports one match at every offset of the
\* run that leaves room for the signature, n - L + 1 in all, each once,
\* with either searcher and every block size.
C4_OverlappingMatches ==
    SearchedAndDone =>
        \A first \in 0..Len(mem) : \A last \in first..Len(mem) :
            (IsRun(first, last) /\ last - first >= Len(sig)) =>
                /\ \A a \in first..(last - Len(sig)) :
                       Count(result.matches, a) = 1
                /\ Cardinality({a \in first..(last - Len(sig)) :
                                   Count(result.matches, a) = 1})
                       = (last - first) - Len(sig) + 1

\* C4 witness: four bytes 0x56 searched for "56 ?6" gave the three matches
\* at offsets 0, 1 and 2
C4_Witness ==
    /\ SearchedAndDone
    /\ mem = <<86, 86, 86, 86>>
    /\ sig = <<sig_byte_full(86), sig_byte_low(6)>>
    /\ result.matches = <<0, 1, 2>>

(***************************************************************************)
(* C5: the order of the matches.                                           *)
(***************************************************************************)
\* C5: after any search, the addresses in search_result.matches() are in
\* ascending order.
C5_MatchesAscending == pc = "done" => NonDescending(result.matches)

(***************************************************************************)
(* C6, C7, C8, C9: degenerate parameters.                                  *)
(***************************************************************************)
\* C6: with a zero-length signature a search, of either searcher and with
\* any block size and thread count (0 included), never reads, never crashes
\* and leaves the result without matches, errors and warnings.
C6_EmptySignature ==
    sig = <<>> =>
        /\ result = EmptyResult
        /\ AllReads = {}
        /\ infos = <<>>
        /\ pc # "crashed"

\* C6 witness: a multi-threaded search with thread count 0 and block size 0
\* over a range that is not empty returned for a zero-length signature
C6_Witness ==
    /\ pc = "done"
    /\ sig = <<>>
    /\ searcher.kind = "multi_threaded"
    /\ searcher.threads_max_count = 0
    /\ searcher.block_size = 0
    /\ Len(mem) > 0

\* C7: a blocking_searcher with block size 0 and a signature that is not
\* empty never reads, and when it returns the result holds exactly one
\* error message, no match and no warning.
C7_ZeroBlockSize ==
    (searcher.kind = "blocking" /\ searcher.block_size = 0 /\ sig # <<>>) =>
        /\ AllReads = {}
        /\ result.matches = <<>>
        /\ result.warning_messages = <<>>
        /\ pc = "done" =>
               result.error_messages = <<"The value of block_size cannot be 0.">>

\* C7 witness: such a search of a range that holds a match returned
C7_Witness ==
    /\ pc = "done"
    /\ searcher.kind = "blocking"
    /\ searcher.block_size = 0
    /\ MatchSet(0, Len(mem)) # {}
    /\ Len(result.error_messages) = 1

\* C8: a multi_threaded_searcher with threads_max_count 0 and a signature
\* that is not empty starts no worker thread and never reads, and when it
\* returns the result holds one error message and no match.
C8_ZeroThreads ==
    (searcher.kind = "multi_threaded" /\ searcher.threads_max_count = 0
        /\ sig # <<>>) =>
        /\ AllReads = {}
        /\ infos = <<>>
        /\ result.matches = <<>>
        /\ pc = "done" =>
               result.error_messages =
                   <<"The value of threads_max_count cannot be 0.">>

\* C8 witness: such a search of a range that holds a match returned
C8_Witness ==
    /\ pc = "done"
    /\ searcher.kind = "multi_threaded"
    /\ searcher.threads_max_count = 0
    /\ searcher.block_size >= 1
    /\ MatchSet(0, Len(mem)) # {}
    /\ Len(result.error_messages) = 1

\* C9: with a multi-thread size threshold of 0, a multi-threaded search for
\* a signature that is not empty does not crash and ends with an error
\* entry in the result.
C9_ZeroThreshold ==
    (threshold = 0 /\ searcher.kind = "multi_threaded" /\ sig # <<>>
        /\ pc \in {"done", "crashed"}) =>
        /\ pc = "done"
        /\ result.error_messages # <<>>

(***************************************************************************)
(* C10: a failed read does not abort a blocking search.                    *)
(***************************************************************************)
\* the blocks a blocking search of the whole memory reads, in order
BlocksOf(n, b) ==
    [j \in 1..((n + b - 1) \div b) |->
        [address |-> (j - 1) * b, size |-> Min(b, n - (j - 1) * b)]]

\* whether the byte at address a lies in a block whose read succeeded
ByteRead(a) ==
    \E r \in AllReads : r.ok /\ r.address <= a /\ a < r.address + r.size

\* C10: in a blocking search, whether reads fail or not, the blocks of the
\* range are all read, each once and in address order; a failed read adds
\* no error entry; and every match whose bytes all lie in blocks that were
\* read successfully, the blocks after a failed one included, is reported.
C10_FailedReadContinues ==
    (SearchedAndDone /\ searcher.kind = "blocking") =>
        /\ Len(reads[0]) = Len(BlocksOf(Len(mem), searcher.block_size))
        /\ \A j \in 1..Len(reads[0]) :
               /\ reads[0][j].address =
                      BlocksOf(Len(mem), searcher.block_size)[j].address
               /\ reads[0][j].size =
                      BlocksOf(Len(mem), searcher.block_size)[j].size
        /\ result.error_messages = <<>>
        /\ \A a \in MatchSet(0, Len(mem)) :
               (\A k \in a..(a + Len(sig) - 1) : ByteRead(k)) =>
                   Count(result.matches, a) = 1

\* C10 witness: the read of the first block failed, at least two later
\* blocks were read, and a match that spans two of them is in the result
C10_Witness ==
    /\ SearchedAndDone
    /\ searcher.kind = "blocking"
    /\ Len(reads[0]) >= 3
    /\ ~reads[0][1].ok
    /\ searcher.block_size < Len(sig)
    /\ \E a \in MatchSet(0, Len(mem)) :
          /\ a >= reads[0][2].address
          /\ Count(result.matches, a) = 1


(***************************************************************************)
(* C11: the summary warning of a blocking search.                          *)
(***************************************************************************)
\* the summary warning of blocking_searcher::search
SummaryWarning == "Some reads failed, the result may be incomplete."

\* whether a read of the calling thread failed
SomeReadFailed == \E j \in 1..Len(reads[0]) : ~reads[0][j].ok

\* C11: in a blocking search of one range the summary warning is not in the
\* result while blocks are still being read; when the search has returned
\* it is in the result exactly once, as the last warning, if at least one
\* block read failed, and the result has no warning at all if every read
\* succeeded.
C11_SummaryWarning ==
    (searcher.kind = "blocking" /\ sig # <<>> /\ searcher.block_size >= 1) =>
        /\ pc = "loop" => Count(result.warning_messages, SummaryWarning) = 0
        /\ (pc = "done" /\ SomeReadFailed) =>
               /\ Count(result.warning_messages, SummaryWarning) = 1
               /\ result.warning_messages[Len(result.warning_messages)]
                      = SummaryWarning
        /\ (pc = "done" /\ ~SomeReadFailed) => result.warning_messages = <<>>

\* C11 witness: a returned search whose first of at least two reads failed
\* and whose result holds the per-block warning and then the summary
C11_Witness ==
    /\ pc = "done"
    /\ searcher.kind = "blocking"
    /\ Len(reads[0]) >= 2
    /\ ~reads[0][1].ok
    /\ reads[0][Len(reads[0])].ok
    /\ Len(result.warning_messages) = 2
    /\ result.warning_messages[2] = SummaryWarning

(***************************************************************************)
(* C12: errors known before the search.                                    *)
(***************************************************************************)
\* C12: if the search context carries an error, or its reader's error()
\* returns a message, executor::search(sig) never calls the reader's read
\* and returns a result that holds exactly that one error message (the
\* context's error if it has one), no match and no warning.
C12_ErrorShortCircuit ==
    (call = "executor"
        /\ (ctx_error # "nullopt"
              \/ (reader # "null" /\ reader_error(reader) # "nullopt"))) =>
        /\ AllReads = {}
        /\ pc # "crashed"
        /\ pc = "done" =>
               result = [matches |-> <<>>,
                         error_messages |->
                             <<IF ctx_error # "nullopt" THEN ctx_error
                               ELSE reader_error(reader)>>,
                         warning_messages |-> <<>>]

\* C12 witness: a search returned the error of a reader that could not open
\* its process, for a range that holds a match
C12_Witness ==
    /\ pc = "done"
    /\ call = "executor"
    /\ reader = "external_process_memory_reader"
    /\ ranges # <<>>
    /\ MatchSet(0, Len(mem)) # {}
    /\ result.error_messages = <<"Failed to open process.">>

(***************************************************************************)
(* C13, C14: signature bytes.                                              *)
(***************************************************************************)
\* C13: sig_byte.match(b) is true iff (b & mask) = value, for every byte b
\* and every pattern byte: a pattern with mask 0xFF matches only the byte
\* equal to value, one with mask 0x00 matches every byte, one with mask 0x0F
\* or 0xF0 exactly the bytes whose low or high nibble equals the pattern's.
C13_MatchSemantics ==
    sb_probe # <<>> =>
        LET p == sb[1]
            b == sb_probe[1].value
            r == sb_probe[1].matched
        IN /\ r <=> (BitAnd(b, p.mask) = p.value)
           /\ p.mask = 255 => (r <=> b = p.value)
           /\ p.mask = 0 => r
           /\ p.mask = 15 => (r <=> b % 16 = p.value % 16)
           /\ p.mask = 240 => (r <=> b \div 16 = p.value \div 16)

\* C14: every sig_byte a constructor makes has no value bit set outside its
\* mask: value & ~mask = 0.
C14_ValueInsideMask ==
    sb # <<>> => BitAnd(sb[1].value, 255 - sb[1].mask) = 0

(***************************************************************************)
(* C15 - C18: the signature parser.                                        *)
(***************************************************************************)
\* where the tokens of text t start, Sep being the separating characters
TokenStarts(t, Sep) ==
    {i \in 1..Len(t) : t[i] \notin Sep /\ (i = 1 \/ t[i - 1] \in Sep)}

\* the token of t that starts at i
TokenAt(t, i, Sep) ==
    LET last == CHOOSE j \in i..Len(t) :
                    /\ \A k \in i..j : t[k] \notin Sep
                    /\ j = Len(t) \/ t[j + 1] \in Sep
    IN SubSeq(t, i, last)

\* the tokens of t: its maximal runs of characters not in Sep, in order
TokensOf(t, Sep) ==
    LET starts == Ascending(TokenStarts(t, Sep))
    IN [n \in 1..Len(starts) |-> TokenAt(t, starts[n], Sep)]

\* the hexadecimal digits, upper and lower case, by value
HexUpper == <<"0", "1", "2", "3", "4", "5", "6", "7", "8", "9",
              "A", "B", "C", "D", "E", "F">>

HexLower == <<"0", "1", "2", "3", "4", "5", "6", "7", "8", "9",
              "a", "b", "c", "d", "e", "f">>

IsHex(ch) == \E i \in 1..16 : HexUpper[i] = ch \/ HexLower[i] = ch

HexVal(ch) == (CHOOSE i \in 1..16 : HexUpper[i] = ch \/ HexLower[i] = ch) - 1

\* the wildcard markers of the build
IsWild(ch) == ch \in {"?", "*"} \/ (ghidra /\ ch = ".")

\* whether a token is a bracketed token of the extended form
IsBracketed(tok) ==
    /\ ghidra
    /\ Len(tok) = 10
    /\ tok[1] = "[" /\ tok[10] = "]"
    /\ \A i \in 2..9 : tok[i] \in {"0", "1"} \/ IsWild(tok[i])

\* whether a token is well-formed
WellFormed(tok) ==
    \/ Len(tok) = 2 /\ \A i \in 1..2 : IsHex(tok[i]) \/ IsWild(tok[i])
    \/ IsBracketed(tok)

\* the sum of 2^(9 - i) over the positions i of a bracketed token that
\* hold a character of S
BitsOf(tok, S) ==
    LET RECURSIVE sum(_)
        sum(i) == IF i > 9 THEN 0
                  ELSE (IF tok[i] \in S THEN 2 ^ (9 - i) ELSE 0) + sum(i + 1)
    IN sum(2)

\* the (value, mask) a well-formed token stands for
Decoded(tok) ==
    IF IsBracketed(tok)
    THEN [value |-> BitsOf(tok, {"1"}), mask |-> BitsOf(tok, {"0", "1"})]
    ELSE IF IsWild(tok[1]) /\ IsWild(tok[2]) THEN [value |-> 0, mask |-> 0]
    ELSE IF IsWild(tok[2]) THEN [value |-> 16 * HexVal(tok[1]), mask |-> 240]
    ELSE IF IsWild(tok[1]) THEN [value |-> HexVal(tok[2]), mask |-> 15]
    ELSE [value |-> 16 * HexVal(tok[1]) + HexVal(tok[2]), mask |-> 255]

\* the results of the parses made so far
Parsed == parsed_rt \o parsed_ct

\* C15: when every token of the text is well-formed, a parse gives a
\* signature with one pattern byte per token, in token order, each the
\* (value, mask) its token stands for: XY (0xXY, 0xFF), X? (0xX0, 0xF0),
\* ?Y (0x0Y, 0x0F), two wildcards (0, 0), and [b7..b0] with the mask bit set
\* for 0 and 1 and the value bit for 1; hex digits in either case, ? and *
\* alike.
C15_TokenDecoding ==
    LET toks == TokensOf(text, {" "}) IN
    (\A n \in 1..Len(toks) : WellFormed(toks[n])) =>
        \A r \in 1..Len(Parsed) :
            /\ Parsed[r].ok
            /\ Len(Parsed[r].bytes) = Len(toks)
            /\ \A n \in 1..Len(toks) : Parsed[r].bytes[n] = Decoded(toks[n])

\* C15 witness: "*d [00.?*101]" parsed at run time, extended form enabled,
\* gave (0x0D, 0x0F) and (0x05, 0xC7)
C15_Witness ==
    /\ ghidra
    /\ parsed_rt # <<>>
    /\ parsed_rt[1].ok
    /\ parsed_rt[1].bytes = <<[value |-> 13, mask |-> 15],
                              [value |-> 5, mask |-> 199]>>
    /\ Len(TokensOf(text, {" "})) = 2
    /\ TokensOf(text, {" "})[1] = <<"*", "d">>

\* C16: when any token of the text is malformed, wherever it stands,
\* signature::parse returns no signature at all.
C16_MalformedRejected ==
    LET toks == TokensOf(text, {" "}) IN
    (parsed_rt # <<>> /\ \E n \in 1..Len(toks) : ~WellFormed(toks[n])) =>
        parsed_rt[1] = NoSignature

\* C16 witness: a text whose first token is well-formed and whose second
\* token is a bracketed token with a character that is no bit was rejected
C16_Witness ==
    LET toks == TokensOf(text, {" "}) IN
    /\ ghidra
    /\ parsed_rt # <<>>
    /\ Len(toks) = 2
    /\ WellFormed(toks[1])
    /\ Len(toks[2]) = 10 /\ toks[2][7] = "2"
    /\ parsed_rt[1] = NoSignature

\* the sig_byte built directly for a well-formed token, as in
\* signature{{0x7D, {_, 0xB}, {0x9, _}, _, {0x5, 0xC7}}}
Direct(tok) ==
    IF IsBracketed(tok)
    THEN sig_byte_value_mask(BitsOf(tok, {"1"}), BitsOf(tok, {"0", "1"}))
    ELSE IF IsWild(tok[1]) /\ IsWild(tok[2]) THEN sig_byte_wildcard
    ELSE IF IsWild(tok[2]) THEN sig_byte_high(HexVal(tok[1]))
    ELSE IF IsWild(tok[1]) THEN sig_byte_low(HexVal(tok[2]))
    ELSE sig_byte_full(16 * HexVal(tok[1]) + HexVal(tok[2]))

C18_WhitespaceSplit ==
    LET toks == TokensOf(text, {" ", "\t"}) IN
    (parsed_rt # <<>> /\ \A n \in 1..Len(toks) : WellFormed(toks[n])) =>
        /\ parsed_rt[1].ok
        /\ Len(parsed_rt[1].bytes) = Len(toks)

\* the tokens of a text with one space between them
RECURSIVE Joined(_)
Joined(toks) ==
    IF toks = <<>> THEN <<>>
    ELSE IF Len(toks) = 1 THEN toks[1]
    ELSE toks[1] \o <<" ">> \o Joined(Tail(toks))

\* C18: the text is split on runs of the space character: the parse gives
\* what it gives for the same tokens with one space between them and none
\* around them; a parse that succeeds gives one byte per token; an empty or
\* all-space text gives a zero-length signature; a tab is no separator, a
\* text that holds one is rejected.
C18_SpaceSplit ==
    LET toks == TokensOf(text, {" "}) IN
    parsed_rt # <<>> =>
        /\ parsed_rt[1] = signature_parse(Joined(toks), ghidra)
        /\ parsed_rt[1].ok => Len(parsed_rt[1].bytes) = Len(toks)
        /\ toks = <<>> => parsed_rt[1] = [ok |-> TRUE, bytes |-> <<>>]
        /\ (\E i \in 1..Len(text) : text[i] = "\t") => ~parsed_rt[1].ok

\* C18 witness: a text with leading spaces and a run of two spaces between
\* its two tokens was parsed to two bytes
C18_Witness ==
    /\ parsed_rt # <<>>
    /\ parsed_rt[1].ok
    /\ Len(parsed_rt[1].bytes) = 2
    /\ \E i \in 1..(Len(text) - 1) :
           text[i] = " " /\ text[i + 1] = " " /\ i > 1 /\ text[i - 1] # " "

(***************************************************************************)
(* C19, C20: the multi-threaded searcher.                                  *)
(***************************************************************************)
\* C19: a multi_threaded_searcher with block size 0 and threads_max_count
\* >= 1, searching any range for a signature that is not empty, returns a
\* result with exactly one error message and no match, as a
\* blocking_searcher with block size 0 does.
C19_ZeroBlockSizeThreads ==
    (pc = "done" /\ searcher.kind = "multi_threaded" /\ searcher.block_size = 0
        /\ searcher.threads_max_count >= 1 /\ sig # <<>>) =>
        /\ Len(result.error_messages) = 1
        /\ result.matches = <<>>

RECURSIVE WorkerMessages(_, _)
\* the error or warning messages of the workers from t on, in partition order
WorkerMessages(field, t) ==
    IF t > Len(infos) THEN <<>>
    ELSE infos[t].result[field] \o WorkerMessages(field, t + 1)

\* C20: a multi-threaded search that started worker threads merges, and
\* returns, only when every one of them has finished and is joined; the
\* result it returns holds the workers' matches sorted by address, each as
\* often as the workers found it, and the workers' error and warning
\* messages concatenated in partition order, whatever the order in which
\* the workers ran and ended.
C20_JoinThenMerge ==
    (Len(infos) > 1 /\ pc \in {"merge", "done"}) =>
        /\ \A t \in 1..Len(infos) :
               infos[t].thread = "joined" /\ frames[t].pc = "returned"
        /\ pc = "done" =>
               /\ NonDescending(result.matches)
               /\ \A a \in 0..Len(mem) :
                      Count(result.matches, a) = WorkerCount(a)
               /\ result.error_messages = WorkerMessages("error_messages", 1)
               /\ result.warning_messages = WorkerMessages("warning_messages", 1)

\* C20 witness: each of two workers had a failed read, and the result holds
\* the first worker's warnings before the second's, and a match
C20_Witness ==
    /\ pc = "done"
    /\ Len(infos) = 2
    /\ infos[1].result.warning_messages # <<>>
    /\ infos[2].result.warning_messages # <<>>
    /\ infos[1].result.warning_messages # infos[2].result.warning_messages
    /\ result.warning_messages =
           infos[1].result.warning_messages \o infos[2].result.warning_messages
    /\ result.matches # <<>>

\* the calling thread is past assign_tasks in a multi-threaded search with
\* threads_max_count >= 1 and a threshold >= 1
Assigned ==
    /\ searcher.kind = "multi_threaded"
    /\ searcher.threads_max_count >= 1
    /\ threshold >= 1
    /\ sig # <<>>
    /\ pc \in {"blocking", "loop", "launch", "join", "merge", "done"}

\* a thread other than the calling one was started or made a read
SomeThreadStarted ==
    \/ \E i \in 1..Len(infos) : infos[i].thread # "none"
    \/ \E t \in Threads \ {0} : frames[t] # NoFrame \/ reads[t] # <<>>

C22_SubRanges ==
    (Assigned /\ pc \in {"blocking", "launch"} /\ li = 1) =>
        LET N == ranges[1].size
            k == Len(infos)
            average == N \div k
            L == Len(sig)
            whole == {a \in 0..MaxMem : a < N}
            sub(i) == {a \in 0..(MaxMem + MaxSigLen) :
                          /\ (i - 1) * average <= a
                          /\ a < infos[i].range.data + infos[i].range.size}
        IN /\ \A i \in 1..k :
                /\ infos[i].range.data = (i - 1) * average
                /\ infos[i].range.size =
                       IF i = k THEN N - (i - 1) * average
                       ELSE Min(average + L - 1, N - (i - 1) * average)
                /\ infos[i].range.size >= 0
                /\ sub(i) \subseteq whole
           /\ UNION {sub(i) : i \in 1..k} = whole

\* three bytes for two workers: the second takes the odd byte
C22_Witness ==
    /\ Assigned
    /\ Len(mem) = 3
    /\ Len(sig) = 1
    /\ Len(infos) = 2
    /\ infos[1].range = [data |-> 0, size |-> 1]
    /\ infos[2].range = [data |-> 1, size |-> 2]
    /\ pc = "launch"
    /\ li = 1

\* whether a span lies wholly inside the file (or memory) that holds mem
InsideFile(span) == span.data + span.size <= Len(mem)

\* C23: the workers of a multi-threaded search share no mutable state: the
\* caller's result is untouched until the workers are joined, and a worker
\* whose own partition can be read wholly reads all of it and reports all
\* its matches and no warning, whatever reads fail in another's partition
C23_WorkersIndependent ==
    /\ pc \in {"launch", "join"} => result = EmptyResult
    /\ \A t \in 1..Len(infos) :
          (infos[t].thread \in {"finished", "joined"} /\ InsideFile(infos[t].range)) =>
              /\ \A j \in 1..Len(reads[t]) : reads[t][j].ok
              /\ infos[t].result.warning_messages = <<>>
              /\ \A a \in MatchSet(infos[t].range.data,
                                    infos[t].range.data + infos[t].range.size) :
                     Count(infos[t].result.matches, a) = 1

\* C29: file_content_reader keeps no failure state across reads: whatever
\* reads failed before, a read of a block wholly inside the file succeeds,
\* and error() reports no error
C29_NoFailureState ==
    reader = "file_content_reader" =>
        /\ \A r \in AllReads : InsideFile([data |-> r.address, size |-> r.size]) => r.ok
        /\ reader_error(reader) = "nullopt"

\* C24: after every match call the tail holds exactly the last min(n, L-1)
\* bytes of the n bytes consumed so far, so it starts at the next base
\* address minus its length and is never longer than L-1
C24_TailExact ==
    m_pc = "ready" =>
        /\ m_last_unmatched =
               Slice(mem, m_pos - Min(m_pos, Len(sig) - 1), m_pos)
        /\ Len(m_last_unmatched) <= Len(sig) - 1

\* a full tail of two bytes was joined with a chunk of one byte, and more
\* was fed afterwards
C24_Witness ==
    /\ m_pc = "ready"
    /\ Len(sig) = 3
    /\ m_calls = 4
    /\ m_sizes = {1, 2}
    /\ m_pos = 5
    /\ Len(m_last_unmatched) = 2

\* the addresses of the matches whose last byte has an address in
\* [first, last), in ascending order
MatchesEndingIn(first, last) ==
    Ascending({a \in 0..last : /\ MatchesAt(a)
                              /\ first <= a + Len(sig) - 1
                              /\ a + Len(sig) - 1 < last})

\* C25: a match() call appends exactly the matches whose last byte it
\* delivers, after what the output held, which it keeps as it is; a call
\* that leaves tail plus chunk shorter than the signature appends nothing
C25_AppendedOnLastByte ==
    [][m_calls' # m_calls =>
          /\ m_result' = m_result \o MatchesEndingIn(m_pos, m_pos')
          /\ (Len(m_last_unmatched) + (m_pos' - m_pos) < Len(sig)
                 => m_result' = m_result)]_vars

\* a match of three bytes was appended by the second call, which brought its
\* last byte or its last two, and a later call changed nothing
C25_Witness ==
    /\ m_pc = "ready"
    /\ Len(sig) = 3
    /\ m_calls = 3
    /\ m_sizes = {1, 2}
    /\ m_pos \in {4, 5}
    /\ m_result = <<0>>

\* C26: a matcher of a zero-length signature is legal and inert: its
\* construction succeeds, and match reports nothing, keeps the tail empty and
\* does not fail
C26_EmptySignatureMatcher ==
    sig = <<>> =>
        /\ m_pc \in {"new", "ready"}
        /\ m_result = <<>>
        /\ m_last_unmatched = <<>>

\* C27: every address a blocking search reports is a true match made of
\* bytes that were read: its L bytes all lie in blocks whose read succeeded
\* and each matches its signature byte, also when reads of blocks fail
C27_OnlyReadBytes ==
    (SearchedAndDone /\ searcher.kind = "blocking") =>
        \A j \in 1..Len(result.matches) :
            LET a == result.matches[j] IN
            /\ MatchesAt(a)
            /\ \A k \in a..(a + Len(sig) - 1) : ByteRead(k)

\* C28: executor::search on a context with no error and no reader returns
\* the single error "No reader." and no match, without using the reader
C28_NoReader ==
    (call = "executor" /\ ctx_error = "nullopt" /\ reader = "null" /\ pc # "start") =>
        /\ pc = "done"
        /\ result = make_error("No reader.")
        /\ AllReads = {}

\* the number of blocks of b bytes that n bytes take: ceil(n / b)
CeilDiv(n, b) == (n + b - 1) \div b

\* the reads of thread t are those of the blocks of a range, in order
ReadsCover(t, range) ==
    /\ Len(reads[t]) = CeilDiv(range.size, searcher.block_size)
    /\ \A j \in 1..Len(reads[t]) :
          reads[t][j].address = range.data + (j - 1) * searcher.block_size
    /\ \A j \in 1..(Len(reads[t]) - 1) :
          reads[t][j].address < reads[t][j + 1].address

\* search has returned, every started worker has finished, and each block
\* loop that ran made its ceil(N / block size) reads at increasing addresses
Terminated ==
    /\ searcher.block_size >= 1
    /\ pc = "done"
    /\ \A t \in 1..Len(infos) : infos[t].thread \in {"none", "joined"}
    /\ IF Len(infos) <= 1
       THEN ReadsCover(0, ranges[1])
       ELSE \A t \in 1..Len(infos) : ReadsCover(t, infos[t].range)

\* a search called with a signature that is not empty, a block size >= 1
\* and a thread count >= 1
Searchable ==
    /\ sig # <<>>
    /\ searcher.block_size >= 1
    /\ searcher.kind = "multi_threaded" => searcher.threads_max_count >= 1

\* C30: every search with a signature that is not empty, a block size >= 1
\* and a thread count >= 1 terminates, whatever the reads return: each block
\* loop makes ceil(N / block size) reads at increasing addresses, the
\* workers finish and search returns
C30_Terminates == Searchable => <>Terminated

\* the same for the builds whose threshold is not 0
TerminatesWithThreshold == (Searchable /\ threshold >= 1) => <>Terminated

====
